---------------------------- MODULE Spec2Model ----------------------------
(***************************************************************************)
(* Model of src/server/index.js: the in-memory store collection, the ZIP   *)
(* centroid index, the nearby-store query (GET /stores) and the tiered ZIP *)
(* resolver (GET /zip/:zip).                                               *)
(*                                                                         *)
(* Strings are sequences of one-character strings, so that toLowerCase,    *)
(* trim, the digit filter of toZip5, parseInt and parseFloat are computed  *)
(* character by character.  A JavaScript number is a record                *)
(* [fin, v]: fin = TRUE for a finite number of value v, and                *)
(* fin = FALSE for NaN (v = 0), +Infinity (v = 1), -Infinity (v = -1).     *)
(* parseFloat results (degrees, metres of the radius) are fixed-point in   *)
(* units of 1/Scale; parseInt results and distances are whole numbers.     *)
(***************************************************************************)
EXTENDS Integers, Sequences, FiniteSets, TLC

VARIABLES
    stores,        \* let stores: the records loaded at startup
    zipCentroids,  \* let zipCentroids: ZIP -> {latitude, longitude}
    nycZipFile,    \* 'NYC Zip Codes.csv' on disk: present flag and rows
    nycZipCache,   \* let nycZipCache: null or the ZipCode -> row table
    query,         \* req.query of the GET /stores request
    storesRes,     \* the response of GET /stores (status and JSON body)
    zreq           \* the GET /zip/:zip requests: position, param, response,
                   \* its network calls and what the validation call came to

vars == <<stores, zipCentroids, nycZipFile, nycZipCache, query, storesRes, zreq>>

----------------------------------------------------------------------------
(* Numbers *)

Scale == 10000

Num(n) == [fin |-> TRUE, v |-> n]
NaN == [fin |-> FALSE, v |-> 0]
PosInf == [fin |-> FALSE, v |-> 1]
NegInf == [fin |-> FALSE, v |-> -1]

\* Number.isFinite
IsFinite(x) == x.fin

Min(a, b) == IF a <= b THEN a ELSE b

----------------------------------------------------------------------------
(* Strings *)

Digits == <<"0", "1", "2", "3", "4", "5", "6", "7", "8", "9">>
DigitSet == {Digits[i] : i \in 1..10}
DigitVal(c) == (CHOOSE i \in 1..10 : Digits[i] = c) - 1

UpperLetters == <<"A", "B", "C", "D", "E", "F", "G", "H", "I", "J", "K", "L", "M",
                  "N", "O", "P", "Q", "R", "S", "T", "U", "V", "W", "X", "Y", "Z">>
LowerLetters == <<"a", "b", "c", "d", "e", "f", "g", "h", "i", "j", "k", "l", "m",
                  "n", "o", "p", "q", "r", "s", "t", "u", "v", "w", "x", "y", "z">>

ToLowerChar(c) ==
    IF \E i \in 1..26 : UpperLetters[i] = c
    THEN LowerLetters[CHOOSE i \in 1..26 : UpperLetters[i] = c]
    ELSE c
ToUpperChar(c) ==
    IF \E i \in 1..26 : LowerLetters[i] = c
    THEN UpperLetters[CHOOSE i \in 1..26 : LowerLetters[i] = c]
    ELSE c

\* String.prototype.toLowerCase / toUpperCase
ToLowerCase(s) == [i \in 1..Len(s) |-> ToLowerChar(s[i])]
ToUpperCase(s) == [i \in 1..Len(s) |-> ToUpperChar(s[i])]

\* The length of the longest prefix of s made of characters of S.
PrefixLen(s, S) ==
    CHOOSE n \in 0..Len(s) :
        /\ \A i \in 1..n : s[i] \in S
        /\ n = Len(s) \/ s[n + 1] \notin S

Drop(s, n) == SubSeq(s, n + 1, Len(s))
Take(s, n) == SubSeq(s, 1, Min(n, Len(s)))

\* String.prototype.trim (the only white space of the model is " ")
TrimStart(s) == Drop(s, PrefixLen(s, {" "}))
Reverse(s) == [i \in 1..Len(s) |-> s[Len(s) + 1 - i]]
Trim(s) == Reverse(TrimStart(Reverse(TrimStart(s))))

\* The value of a string of decimal digits.
RECURSIVE IntVal(_)
IntVal(ds) ==
    IF ds = <<>> THEN 0
    ELSE IntVal(SubSeq(ds, 1, Len(ds) - 1)) * 10 + DigitVal(ds[Len(ds)])

\* The value, in units of 1/Scale, of the digits after a decimal point
\* (digits beyond the fourth are below the resolution of the model).
FracVal(ds) ==
    LET d(i) == IF i <= Len(ds) THEN DigitVal(ds[i]) ELSE 0
    IN  d(1) * 1000 + d(2) * 100 + d(3) * 10 + d(4)

StartsWith(s, p) == Len(s) >= Len(p) /\ SubSeq(s, 1, Len(p)) = p

SignOf(s) == IF s # <<>> /\ s[1] = "-" THEN -1 ELSE 1
DropSign(s) == IF s # <<>> /\ s[1] \in {"-", "+"} THEN Drop(s, 1) ELSE s

InfinityStr == <<"I", "n", "f", "i", "n", "i", "t", "y">>

\* parseInt(s, 10): white space, an optional sign, the longest run of
\* digits; NaN when there is no digit.
ParseInt(s) ==
    LET t == TrimStart(s)
        u == DropSign(t)
        n == PrefixLen(u, DigitSet)
    IN  IF n = 0 THEN NaN ELSE Num(SignOf(t) * IntVal(Take(u, n)))

\* parseFloat(s): white space, an optional sign, then "Infinity" or the
\* longest decimal literal (digits, optionally "." and digits); NaN when
\* there is none.  The result is in units of 1/Scale.  Exponents are not
\* modelled (no string of the model has one).
ParseFloat(s) ==
    LET t == TrimStart(s)
        u == DropSign(t)
        n == PrefixLen(u, DigitSet)
        r == Drop(u, n)
        f == IF r # <<>> /\ r[1] = "." THEN Take(Drop(r, 1), PrefixLen(Drop(r, 1), DigitSet))
             ELSE <<>>
    IN  IF StartsWith(u, InfinityStr) THEN (IF SignOf(t) = 1 THEN PosInf ELSE NegInf)
        ELSE IF n = 0 /\ f = <<>> THEN NaN
        ELSE Num(SignOf(t) * (IntVal(Take(u, n)) * Scale + FracVal(f)))

\* A value that may be undefined (a missing query parameter, CSV column or
\* JSON field): present = FALSE is undefined.
Undefined == [present |-> FALSE, s |-> <<>>]
Str(s) == [present |-> TRUE, s |-> s]

\* String(x || dflt): undefined and the empty string are falsy.
OrDefault(x, dflt) == IF x.present /\ x.s # <<>> THEN x.s ELSE dflt

----------------------------------------------------------------------------
(* Record normalizer *)

\* function toZip5(value)
toZip5(value) ==
    IF ~value.present THEN <<>>
    ELSE LET digits == Take(SelectSeq(value.s, LAMBDA c : c \in DigitSet), 5)
         IN  [i \in 1..(5 - Len(digits)) |-> "0"] \o digits

\* function parseBoolean(value), for the string fields of a CSV row
parseBoolean(value) ==
    LET s == ToLowerCase(Trim(OrDefault(value, <<>>)))
    IN  s \in {<<"t", "r", "u", "e">>, <<"1">>, <<"y", "e", "s">>}


\* parseFloat(x) of a value that may be undefined: String(undefined) has
\* no numeric prefix.
ParseFloatOf(x) == IF x.present THEN ParseFloat(x.s) ELSE NaN

\* One row of 'NYC Food Stamp Stores.csv' becomes one record, or is skipped
\* (the empty sequence) when its latitude or longitude is not finite.  The
\* record keeps the fields the queries read.
StoreOfRow(row) ==
    LET lat == ParseFloatOf(row.Latitude)
        lon == ParseFloatOf(row.Longitude)
    IN  IF ~IsFinite(lat) \/ ~IsFinite(lon) THEN <<>>
        ELSE << [ zip            |-> toZip5(row.Zip_Code),
                  storeType      |-> OrDefault(row.Store_Type, <<>>),
                  isHealthyStore |-> parseBoolean(row.Is_Healthy_Store),
                  latitude       |-> lat,
                  longitude      |-> lon ] >>

\* function loadStoresFromCsv(csvPath), on the rows of the file
RECURSIVE loadStoresFromCsv(_)
loadStoresFromCsv(rows) ==
    IF rows = <<>> THEN <<>>
    ELSE StoreOfRow(rows[1]) \o loadStoresFromCsv(Drop(rows, 1))

----------------------------------------------------------------------------
(* ZIP centroid index builder: start(), the loop over stores *)

\* The sum of a field over seq[lo..hi] (halving keeps the evaluation shallow).
RECURSIVE SumRange(_, _, _, _)
SumRange(seq, field, lo, hi) ==
    IF lo > hi THEN 0
    ELSE IF lo = hi THEN seq[lo][field].v
    ELSE LET mid == (lo + hi) \div 2
         IN  SumRange(seq, field, lo, mid) + SumRange(seq, field, mid + 1, hi)

SumOf(seq, field) == SumRange(seq, field, 1, Len(seq))

\* v.sumLat / v.count, rounded to the fixed-point resolution
MeanOf(seq, field) == Num(SumOf(seq, field) \div Len(seq))

buildCentroids(coll) ==
    LET zips == {coll[i].zip : i \in 1..Len(coll)} \ {<<>>}
        group(z) == SelectSeq(coll, LAMBDA s : s.zip = z)
    IN  [z \in zips |-> [ latitude  |-> MeanOf(group(z), "latitude"),
                          longitude |-> MeanOf(group(z), "longitude") ]]

----------------------------------------------------------------------------
(* Distance engine *)

\* function haversineMeters(lat1, lon1, lat2, lon2): the values the formula
\* gives (R = 6371000), rounded to whole metres, on the coordinates of the
\* model: <<lat1, lon1, lat2, lon2, metres>> with the angles in degrees.
HaversineGrid ==
    { <<0, 0, 40, -74, 8652102>>,   <<0, 0, 41, -74, 8672459>>,
      <<0, -74, 40, -74, 4447797>>, <<0, -74, 41, -74, 4558992>>,
      <<40, 0, 40, -74, 6105214>>,  <<40, 0, 41, -74, 6057298>>,
      <<40, -74, 40, -74, 0>>,      <<40, -74, 41, -74, 111195>> }

haversineMeters(lat1, lon1, lat2, lon2) ==
    LET t == CHOOSE g \in HaversineGrid :
                 /\ g[1] * Scale = lat1.v /\ g[2] * Scale = lon1.v
                 /\ g[3] * Scale = lat2.v /\ g[4] * Scale = lon2.v
    IN  t[5]

----------------------------------------------------------------------------
(* Store query engine: app.get('/stores') *)

DefaultLimit == 200
DefaultLimitStr == <<"2", "0", "0">>
DefaultRadiusStr == <<"1", "6", "0", "9">>
UnlimitedStr == <<"u", "n", "l", "i", "m", "i", "t", "e", "d">>

\* const rawLimit = ...; let limit = ...; if (!Number.isFinite(limit) ||
\* limit <= 0) limit = 200;
ParseLimit(q) ==
    LET rawLimit == OrDefault(q.limit, DefaultLimitStr)
        limit == IF ToLowerCase(rawLimit) = UnlimitedStr THEN PosInf
                 ELSE ParseInt(rawLimit)
    IN  IF ~IsFinite(limit) \/ limit.v <= 0 THEN Num(DefaultLimit) ELSE limit

\* const lat = parseFloat(String(req.query.lat || '0'))
ParseOrigin(x) == ParseFloat(OrDefault(x, <<"0">>))

\* if (healthyOnly === 'true') ... else if (healthyOnly === 'false') ...
HealthFilter(coll, q) ==
    LET healthyOnly == ToLowerCase(OrDefault(q.isHealthy, <<"a", "n", "y">>))
    IN  IF healthyOnly = <<"t", "r", "u", "e">>
        THEN SelectSeq(coll, LAMBDA s : s.isHealthyStore)
        ELSE IF healthyOnly = <<"f", "a", "l", "s", "e">>
        THEN SelectSeq(coll, LAMBDA s : ~s.isHealthyStore)
        ELSE coll

\* if (storeType) { ... s.storeType.toLowerCase() === typeLc }
TypeFilter(coll, q) ==
    LET storeType == Trim(OrDefault(q.storeType, <<>>))
    IN  IF storeType # <<>>
        THEN SelectSeq(coll, LAMBDA s : ToLowerCase(s.storeType) = ToLowerCase(storeType))
        ELSE coll

\* s.distance_m <= radiusMeters, for a whole number of metres and a radius
\* in units of 1/Scale; every comparison with NaN is false.
WithinRadius(d, radiusMeters) ==
    IF IsFinite(radiusMeters) THEN d <= radiusMeters.v \div Scale
    ELSE radiusMeters = PosInf

\* A query that forgets to sort.
SortByDistance_Unsorted(seq) == seq

\* .sort((a, b) => a.distance_m - b.distance_m): Array.prototype.sort is
\* stable, so equal distances keep the order of the collection.
RECURSIVE SortByDistance(_)
SortByDistance(seq) ==
    IF seq = <<>> THEN <<>>
    ELSE LET least == CHOOSE d \in {seq[i].distance_m : i \in 1..Len(seq)} :
                          \A i \in 1..Len(seq) : d <= seq[i].distance_m
         IN  SelectSeq(seq, LAMBDA s : s.distance_m = least)
                 \o SortByDistance(SelectSeq(seq, LAMBDA s : s.distance_m # least))

\* if (Number.isFinite(limit)) withDistance = withDistance.slice(0, limit)
ApplyLimit(seq, limit) == IF IsFinite(limit) THEN Take(seq, limit.v) ELSE seq

\* The stores that pass the health filter, the type filter and the radius
\* test, each with its distance, in the order of the collection.
Matching(coll, q) ==
    LET lat == ParseOrigin(q.lat)
        lng == ParseOrigin(q.lng)
        radiusMeters == ParseFloat(OrDefault(q.radius, DefaultRadiusStr))
        filtered == TypeFilter(HealthFilter(coll, q), q)
        withDistance ==
            [i \in 1..Len(filtered) |->
                [ store      |-> filtered[i],
                  distance_m |-> haversineMeters(lat, lng, filtered[i].latitude,
                                                 filtered[i].longitude) ]]
    IN  SelectSeq(withDistance, LAMBDA s : WithinRadius(s.distance_m, radiusMeters))

\* The whole handler: the response to req.query = q.
StoresHandler(coll, q) ==
    IF ~IsFinite(ParseOrigin(q.lat)) \/ ~IsFinite(ParseOrigin(q.lng))
    THEN [status |-> 400, body |-> <<>>]
    ELSE [status |-> 200,
          body   |-> ApplyLimit(SortByDistance(Matching(coll, q)), ParseLimit(q))]

----------------------------------------------------------------------------
(* ZIP resolver: the local tables *)

Coord(lat, lon) == [latitude |-> Num(lat), longitude |-> Num(lon)]

BRONX == <<"B", "R", "O", "N", "X">>
BROOKLYN == <<"B", "R", "O", "O", "K", "L", "Y", "N">>
MANHATTAN == <<"M", "A", "N", "H", "A", "T", "T", "A", "N">>
QUEENS == <<"Q", "U", "E", "E", "N", "S">>
STATEN_ISLAND == <<"S", "T", "A", "T", "E", "N", " ", "I", "S", "L", "A", "N", "D">>

\* const boroughCoords = { ... }
boroughCoords ==
    { <<BRONX, Coord(408448, -738648)>>,
      <<BROOKLYN, Coord(406782, -739442)>>,
      <<MANHATTAN, Coord(407831, -739712)>>,
      <<QUEENS, Coord(407282, -737949)>>,
      <<STATEN_ISLAND, Coord(405795, -741502)>> }

\* table[key], as a sequence: empty when the key is not in the table
Lookup(table, key) ==
    IF \E e \in table : e[1] = key
    THEN << (CHOOSE e \in table : e[1] = key)[2] >>
    ELSE <<>>

\* A lookup that does not upper-case the borough name.
getBoroughCoordinates_CaseSensitive(borough) ==
    LET hit == Lookup(boroughCoords, borough)
    IN  IF hit # <<>> THEN hit[1] ELSE Lookup(boroughCoords, MANHATTAN)[1]

\* function getBoroughCoordinates(borough)
getBoroughCoordinates(borough) ==
    LET hit == Lookup(boroughCoords, ToUpperCase(borough))
    IN  IF hit # <<>> THEN hit[1] ELSE Lookup(boroughCoords, MANHATTAN)[1]

\* const zipPrefixCoords = { ... }
zipPrefixCoords ==
    { << <<"1", "0", "0">>, Coord(407589, -739851) >>,
      << <<"1", "0", "1">>, Coord(407589, -739851) >>,
      << <<"1", "0", "2">>, Coord(407589, -739851) >>,
      << <<"1", "0", "3">>, Coord(405795, -741502) >>,
      << <<"1", "0", "4">>, Coord(408448, -738648) >>,
      << <<"1", "1", "0">>, Coord(407282, -737949) >>,
      << <<"1", "1", "1">>, Coord(407282, -737949) >>,
      << <<"1", "1", "2">>, Coord(406782, -739442) >>,
      << <<"1", "1", "3">>, Coord(407282, -737949) >>,
      << <<"1", "1", "4">>, Coord(407282, -737949) >>,
      << <<"1", "1", "6">>, Coord(407282, -737949) >> }

\* function getNYCApproximateCoordinates(zip): <<>> is null
getNYCApproximateCoordinates(zip) == Lookup(zipPrefixCoords, Take(zip, 3))

\* Object.fromEntries(results.map(r => [r.zip, r])): the table read from
\* the rows of 'NYC Zip Codes.csv'; the last row of a ZipCode wins.
NycTableOf(rows) ==
    [z \in {rows[i].ZipCode : i \in 1..Len(rows)} |->
        rows[CHOOSE i \in 1..Len(rows) :
                 /\ rows[i].ZipCode = z
                 /\ \A j \in (i + 1)..Len(rows) : rows[j].ZipCode # z]]

EmptyTable == [z \in {} |-> 0]

\* The start of loadNYCZips(): the cached table, a stream on the file, or
\* {} when the file does not exist.
LoadMode == IF nycZipCache.loaded THEN "cached"
            ELSE IF nycZipFile.exists THEN "reading" ELSE "nofile"

----------------------------------------------------------------------------
(* ZIP resolver: app.get('/zip/:zip') *)

NoBody == <<>>
Response(status, body) == [status |-> status, body |-> body]
NoResponse == Response(0, NoBody)

IdleReq ==
    [ pc |-> "idle", param |-> Undefined, zip |-> <<>>, load |-> "none",
      res |-> NoResponse, nomCalls |-> 0, uspsCalls |-> 0, wrote |-> FALSE,
      usps |-> "none" ]

Done(q, status, body) == [q EXCEPT !.pc = "done", !.res = Response(status, body)]

\* A resolver whose tier 1 never hits.
CentroidHit_Never(index, zip) == FALSE

\* const centroid = zipCentroids[zip]; if (centroid) ...
CentroidHit(index, zip) == zip \in DOMAIN index

\* The handler up to its first await: toZip5, the empty-ZIP check, tier 1,
\* and the call of loadNYCZips().
StartStep(q, param, index, mode) ==
    LET zip == toZip5(param)
        q1 == [q EXCEPT !.param = param, !.zip = zip]
    IN  IF zip = <<>> THEN Done(q1, 400, NoBody)
        ELSE IF CentroidHit(index, zip) THEN Done(q1, 200, <<index[zip]>>)
        ELSE [q1 EXCEPT !.pc = "awaitZips", !.load = mode]

\* After await loadNYCZips(): tier 2, or the call of the geocoding service.
Tier2Step(q, nycZipData) ==
    IF q.zip \in DOMAIN nycZipData
    THEN Done(q, 200, <<getBoroughCoordinates(nycZipData[q.zip].Borough)>>)
    ELSE [q EXCEPT !.pc = "awaitNominatim", !.nomCalls = @ + 1]

\* What the geocoding request can come to: the fetch rejects, the status
\* is not OK, the body is not JSON, the list is empty, or a first result
\* whose lat and lon fields are strings or are missing.
NominatimKinds == {"throws", "notOk", "badJson", "empty", "results"}

\* Tier 3, inside its try block: the coordinate taken from the response,
\* as a sequence (empty when the tier produced none).
NominatimCoords(out) ==
    IF out.kind = "results"
    THEN << [ latitude  |-> ParseFloatOf(out.lat),
              longitude |-> ParseFloatOf(out.lon) ] >>
    ELSE <<>>

\* A tier 3 without its try/catch: a rejected fetch reaches the outer catch.
NominatimStep_Propagates(q, out) ==
    LET coords == NominatimCoords(out)
    IN  IF out.kind = "throws" THEN Done(q, 500, NoBody)
        ELSE IF coords # <<>>
        THEN [Done(q, 200, coords) EXCEPT !.wrote = TRUE]
        ELSE [q EXCEPT !.pc = "awaitUsps", !.uspsCalls = @ + 1]

\* After await fetch(nominatimUrl) and await nominatimRes.json(): the cache
\* write and the response, or the call of the validation service.
NominatimStep(q, out) ==
    LET coords == NominatimCoords(out)
    IN  IF coords # <<>>
        THEN [Done(q, 200, coords) EXCEPT !.wrote = TRUE]
        ELSE [q EXCEPT !.pc = "awaitUsps", !.uspsCalls = @ + 1]

\* What the validation request can come to: the fetch rejects, the status
\* is not OK, reading the text rejects, the text holds '<Error>', or not.
UspsKinds == {"throws", "notOk", "badText", "error", "valid"}

\* A tier 4 that does not look for '<Error>' in the text.
UspsCoords_IgnoresError(zip, kind) ==
    IF kind \in {"valid", "error"} THEN getNYCApproximateCoordinates(zip) ELSE <<>>

\* Tier 4, inside its try block: the coordinate, as a sequence.
UspsCoords(zip, kind) ==
    IF kind = "valid" THEN getNYCApproximateCoordinates(zip) ELSE <<>>

\* After await fetch(uspsUrl) and await uspsRes.text(): the cache write and
\* the response, or 404.
UspsStep(q0, kind) ==
    LET coords == UspsCoords(q0.zip, kind)
        q == [q0 EXCEPT !.usps = kind]
    IN  IF coords # <<>>
        THEN [Done(q, 200, coords) EXCEPT !.wrote = TRUE]
        ELSE Done(q, 404, NoBody)

\* zipCentroids[zip] = coords
CacheWrite(index, zip, coords) ==
    [z \in DOMAIN index \cup {zip} |-> IF z = zip THEN coords ELSE index[z]]

\* The index after a step that took request q to q2.
IndexAfter(index, q, q2) ==
    IF q2.wrote /\ ~q.wrote THEN CacheWrite(index, q2.zip, q2.res.body[1]) ELSE index

----------------------------------------------------------------------------
(* Bounds and inputs *)

MaxStores == 2
NumReqs == 2

Reqs == 1..NumReqs

Deli == <<"D", "e", "l", "i">>
Bodega == <<"B", "o", "d", "e", "g", "a">>
Zip10001 == <<"1", "0", "0", "0", "1">>

\* Loaded store records: finite coordinates on the grid of HaversineGrid.
StoreDomain ==
    [ zip            : {Zip10001},
      storeType      : {Deli, Bodega},
      isHealthyStore : BOOLEAN,
      latitude       : {Num(40 * Scale), Num(41 * Scale)},
      longitude      : {Num(-74 * Scale)} ]

NearStore ==
    [ zip |-> Zip10001, storeType |-> Deli, isHealthyStore |-> TRUE,
      latitude |-> Num(40 * Scale), longitude |-> Num(-74 * Scale) ]

\* The collections of the store queries: every collection of at most
\* MaxStores records, and one with more records than the default limit.
StoreCollections ==
    UNION {[1..k -> StoreDomain] : k \in 0..MaxStores}
        \cup {[i \in 1..(DefaultLimit + 1) |-> NearStore]}

LatParams == {Undefined, Str(<<>>), Str(<<"x">>), Str(<<"4", "0">>)}
LngParams == {Undefined, Str(<<"-", "7", "4">>), Str(InfinityStr)}
RadiusParams == {Undefined, Str(<<"1", "2", "0", "0", "0", "0">>), Str(<<"x">>)}
HealthParams == {Undefined, Str(<<"T", "R", "U", "E">>), Str(<<"f", "a", "l", "s", "e">>)}
TypeParams == {Undefined, Str(<<" ", "d", "e", "l", "i">>)}
LimitParams ==
    { Undefined, Str(<<"1">>), Str(<<"0">>), Str(<<"-", "1">>), Str(<<"x">>),
      Str(UnlimitedStr), Str(<<"U", "n", "l", "i", "m", "i", "t", "e", "d">>) }

Queries ==
    [ lat : LatParams, lng : LngParams, radius : RadiusParams,
      isHealthy : HealthParams, storeType : TypeParams, limit : LimitParams ]

NoQuery ==
    [ lat |-> Undefined, lng |-> Undefined, radius |-> Undefined,
      isHealthy |-> Undefined, storeType |-> Undefined, limit |-> Undefined ]

\* Rows of 'NYC Food Stamp Stores.csv'.
Row(lat, lon, zip) ==
    [ Latitude |-> lat, Longitude |-> lon, Zip_Code |-> zip,
      Store_Type |-> Str(Deli), Is_Healthy_Store |-> Str(<<"Y", "e", "s">>) ]

CsvFiles ==
    { <<>>,
      << Row(Str(<<"4", "0", ".", "5">>), Str(<<"-", "7", "4">>), Str(Zip10001)),
         Row(Str(<<"x">>), Str(<<"-", "7", "4">>), Str(<<"1", "1", "6", "9", "9">>)),
         Row(Str(<<"4", "1">>), Str(<<"-", "7", "4">>),
             Str(<<"1", "0", "0", "0", "1", "-", "2", "3", "4", "5">>)),
         Row(Str(<<"4", "1">>), Str(<<"-", "7", "4">>), Undefined) >>,
      << Row(Str(<<"4", "0">>), Str(<<"-", "7", "4">>), Str(<<"n", "/", "a">>)) >> }

\* 'NYC Zip Codes.csv': missing, or rows of ZipCode and Borough.
Zip10002 == <<"1", "0", "0", "0", "2">>
NycZipFiles ==
    { [exists |-> FALSE, rows |-> <<>>],
      [exists |-> TRUE,
       rows |-> << [ZipCode |-> Zip10002, Borough |-> <<"B", "r", "o", "n", "x">>] >>],
      [exists |-> TRUE,
       rows |-> << [ZipCode |-> Zip10002, Borough |-> <<"N", "J">>] >>] }

\* req.params.zip
ZipParams ==
    { Str(<<"a", "b", "c">>), Str(Zip10001), Str(Zip10002),
      Str(<<"1", "1", "6", "9", "9">>) }

\* The first result of the geocoding service: lat and lon as it sends them.
NominatimOutcomes ==
    [kind : NominatimKinds \ {"results"}, lat : {Undefined}, lon : {Undefined}]
        \cup { [kind |-> "results", lat |-> Str(<<"4", "0", ".", "7">>),
                lon |-> Str(<<"-", "7", "3", ".", "9">>)],
               [kind |-> "results", lat |-> Undefined, lon |-> Undefined] }

----------------------------------------------------------------------------
(* The nearby-store query as a state machine *)

InitStores ==
    /\ stores \in StoreCollections
    /\ zipCentroids = buildCentroids(stores)
    /\ nycZipFile = [exists |-> FALSE, rows |-> <<>>]
    /\ nycZipCache = [loaded |-> FALSE, table |-> EmptyTable]
    /\ query \in Queries
    /\ storesRes = NoResponse
    /\ zreq = [r \in Reqs |-> IdleReq]

\* app.get('/stores', (req, res) => ...)
GetStores ==
    /\ storesRes = NoResponse
    /\ storesRes' = StoresHandler(stores, query)
    /\ UNCHANGED <<stores, zipCentroids, nycZipFile, nycZipCache, query, zreq>>

SpecStores == InitStores /\ [][GetStores]_vars

----------------------------------------------------------------------------
(* The ZIP resolver as a state machine *)

\* start(): the stores are loaded and the centroid index is built.
Init ==
    /\ \E rows \in CsvFiles : stores = loadStoresFromCsv(rows)
    /\ zipCentroids = buildCentroids(stores)
    /\ nycZipFile \in NycZipFiles
    /\ nycZipCache = [loaded |-> FALSE, table |-> EmptyTable]
    /\ query = NoQuery
    /\ storesRes = NoResponse
    /\ zreq = [r \in Reqs |-> IdleReq]

ZipFrame == UNCHANGED <<stores, nycZipFile, query, storesRes>>

\* A request arrives; the handler runs to its first await or to its end.
ZipStart(r) ==
    /\ zreq[r].pc = "idle"
    /\ \E param \in ZipParams :
           zreq' = [zreq EXCEPT ![r] = StartStep(@, param, zipCentroids, LoadMode)]
    /\ UNCHANGED <<zipCentroids, nycZipCache>>
    /\ ZipFrame

\* loadNYCZips() resolves: with the cached table, with the table just read
\* (which it caches), or with {}.
ZipTablesLoaded(r) ==
    /\ zreq[r].pc = "awaitZips"
    /\ LET table == IF zreq[r].load = "nofile" THEN EmptyTable
                    ELSE NycTableOf(nycZipFile.rows)
       IN  /\ zreq' = [zreq EXCEPT ![r] = Tier2Step(@, table)]
           /\ nycZipCache' = IF zreq[r].load = "reading"
                             THEN [loaded |-> TRUE, table |-> table]
                             ELSE nycZipCache
    /\ UNCHANGED zipCentroids
    /\ ZipFrame

\* The stream of loadNYCZips() fails: the rejection reaches the outer catch.
ZipTablesFailed(r) ==
    /\ zreq[r].pc = "awaitZips"
    /\ zreq[r].load = "reading"
    /\ zreq' = [zreq EXCEPT ![r] = Done(@, 500, NoBody)]
    /\ UNCHANGED <<zipCentroids, nycZipCache>>
    /\ ZipFrame

\* The geocoding request settles.
ZipNominatim(r) ==
    /\ zreq[r].pc = "awaitNominatim"
    /\ \E out \in NominatimOutcomes :
           /\ zreq' = [zreq EXCEPT ![r] = NominatimStep(@, out)]
           /\ zipCentroids' = IndexAfter(zipCentroids, zreq[r], zreq'[r])
    /\ UNCHANGED nycZipCache
    /\ ZipFrame

\* The validation request settles.
ZipUsps(r) ==
    /\ zreq[r].pc = "awaitUsps"
    /\ \E kind \in UspsKinds :
           /\ zreq' = [zreq EXCEPT ![r] = UspsStep(@, kind)]
           /\ zipCentroids' = IndexAfter(zipCentroids, zreq[r], zreq'[r])
    /\ UNCHANGED nycZipCache
    /\ ZipFrame

Next ==
    \E r \in Reqs :
        \/ ZipStart(r)
        \/ ZipTablesLoaded(r)
        \/ ZipTablesFailed(r)
        \/ ZipNominatim(r)
        \/ ZipUsps(r)

Spec == Init /\ [][Next]_vars

----------------------------------------------------------------------------
(* Properties of the nearby-store query (checked under SpecStores) *)

Responded == storesRes # NoResponse

\* The number of stores passing the health filter, the type filter and
\* the radius test.
MatchCount == Len(Matching(stores, query))

\* The limit parameter as the interface describes it.
LimitIsUnlimited ==
    query.limit.present /\ ToLowerCase(query.limit.s) = UnlimitedStr
LimitIsPositiveInteger ==
    /\ query.limit.present
    /\ query.limit.s # <<>>
    /\ \A i \in 1..Len(query.limit.s) : query.limit.s[i] \in DigitSet
    /\ IntVal(query.limit.s) > 0
DescribedCap ==
    IF LimitIsPositiveInteger THEN IntVal(query.limit.s) ELSE DefaultLimit

\* C1: a successful nearby-store query returns min(M, cap) stores, where M
\* is the number of matching stores and cap is n for a positive integer
\* limit n and 200 for an absent, unparsable or non-positive limit; with
\* the 'unlimited' sentinel (any letter case) all M stores are returned.
C1_CountIsMinOfMatchesAndCap ==
    (Responded /\ storesRes.status = 200) =>
        Len(storesRes.body) =
            IF LimitIsUnlimited THEN MatchCount ELSE Min(MatchCount, DescribedCap)

\* An origin component that is absent, empty or not a finite number.
BadOrigin(x) == ~x.present \/ x.s = <<>> \/ ~IsFinite(ParseFloat(x.s))

\* C2: a nearby-store query whose origin latitude or longitude is absent,
\* empty or not a finite number fails with 400 and returns no stores.
C2_BadOriginIsRejected ==
    (Responded /\ (BadOrigin(query.lat) \/ BadOrigin(query.lng))) =>
        storesRes = Response(400, <<>>)

\* The number of elements of seq at distance d.
CountAt(seq, d) == Len(SelectSeq(seq, LAMBDA s : s.distance_m = d))

\* C7: the result of a valid nearby-store query is sorted by non-decreasing
\* distance from the origin, every returned store is a matching store
\* whose distance from the origin is within the requested radius, and no
\* matching store left out is strictly nearer than a returned one.
C7_SortedWithinRadiusNearestKept ==
    (Responded /\ storesRes.status = 200) =>
        LET body == storesRes.body
            all == Matching(stores, query)
            radiusMeters == ParseFloat(OrDefault(query.radius, DefaultRadiusStr))
            dists == {all[i].distance_m : i \in 1..Len(all)}
        IN  /\ \A i \in 1..Len(body) : \A j \in i..Len(body) :
                   body[i].distance_m <= body[j].distance_m
            /\ \A i \in 1..Len(body) :
                   /\ body[i].distance_m =
                          haversineMeters(ParseOrigin(query.lat), ParseOrigin(query.lng),
                                          body[i].store.latitude, body[i].store.longitude)
                   /\ WithinRadius(body[i].distance_m, radiusMeters)
                   /\ \E j \in 1..Len(all) : all[j] = body[i]
            /\ \A d \in dists :
                   /\ CountAt(body, d) <= CountAt(all, d)
                   /\ CountAt(body, d) < CountAt(all, d) =>
                          \A i \in 1..Len(body) : body[i].distance_m <= d

\* C7's case: two matching stores, the farther one first in the collection,
\* and a limit of one that keeps the nearer.
C7_Witness ==
    /\ Responded /\ storesRes.status = 200
    /\ Len(storesRes.body) = 1
    /\ LET all == Matching(stores, query)
       IN  /\ Len(all) = 2
           /\ all[1].distance_m > all[2].distance_m
           /\ storesRes.body[1] = all[2]

----------------------------------------------------------------------------
(* Properties of the ZIP resolver (checked under Spec) *)

HasNoDigit(s) == \A i \in 1..Len(s) : s[i] \notin DigitSet

\* C3: a ZIP with no digit normalizes to the empty string, and resolveZip
\* on it responds 400 without consulting a tier, calling a service or
\* writing the centroid index.
C3_NoDigitZipIsRejected ==
    \A r \in Reqs :
        (zreq[r].pc # "idle" /\ HasNoDigit(zreq[r].param.s)) =>
            /\ toZip5(zreq[r].param) = <<>>
            /\ zreq[r].pc = "done"
            /\ zreq[r].res = Response(400, NoBody)
            /\ zreq[r].load = "none"
            /\ zreq[r].nomCalls = 0 /\ zreq[r].uspsCalls = 0
            /\ ~zreq[r].wrote

\* C4: once a ZIP is in the centroid index, no step of any request changes
\* the coordinate stored under it or removes it.
C4_WriteOncePerKey ==
    [][\A z \in DOMAIN zipCentroids :
           z \in DOMAIN zipCentroids' /\ zipCentroids'[z] = zipCentroids[z]]_vars

\* C5: a request whose normalized ZIP is in the centroid index when it is
\* looked up ends at once with exactly the stored coordinate, calls no
\* external service and leaves the index unchanged.
C5_CentroidHitIsLocal ==
    [][\A r \in Reqs :
           ( /\ zreq[r].pc = "idle"
             /\ zreq'[r].pc # "idle"
             /\ toZip5(zreq'[r].param) \in DOMAIN zipCentroids ) =>
               /\ zreq'[r].pc = "done"
               /\ zreq'[r].res = Response(200, <<zipCentroids[toZip5(zreq'[r].param)]>>)
               /\ zreq'[r].nomCalls = 0 /\ zreq'[r].uspsCalls = 0
               /\ ~zreq'[r].wrote
               /\ zipCentroids' = zipCentroids]_vars

\* C5's case: one request cached a ZIP and another request for it was
\* answered from the index.
C5_Witness ==
    \E r1, r2 \in Reqs :
        /\ r1 # r2
        /\ zreq[r1].wrote
        /\ zreq[r2].pc = "done" /\ zreq[r2].load = "none"
        /\ zreq[r2].zip = zreq[r1].zip
        /\ zreq[r2].res = Response(200, <<zipCentroids[zreq[r2].zip]>>)
        /\ zreq[r2].nomCalls = 0 /\ zreq[r2].uspsCalls = 0

\* Tier 4 failed: the call threw, was not OK, gave no text, reported an
\* error, or the ZIP's first three digits are not in the prefix table.
Tier4Failed(q) ==
    \/ q.usps \in {"throws", "notOk", "badText", "error"}
    \/ /\ q.usps = "valid"
       /\ ~\E e \in zipPrefixCoords : e[1] = SubSeq(q.zip, 1, 3)

\* C6: a request that reached tier 4 (its ZIP missed the index and the
\* regional table, and tier 3 gave no coordinate) and whose tier 4 fails
\* ends with 404 and no coordinate, and leaves the index unchanged.
C6_ExhaustedIsNotFound ==
    [][\A r \in Reqs :
           ( /\ zreq[r].pc = "awaitUsps"
             /\ zreq'[r].pc # "awaitUsps"
             /\ Tier4Failed(zreq'[r]) ) =>
               /\ zreq'[r].pc = "done"
               /\ zreq'[r].res = Response(404, NoBody)
               /\ ~zreq'[r].wrote
               /\ zipCentroids' = zipCentroids]_vars

\* C6's case: both network calls were made and the second one threw.
C6_Witness ==
    \E r \in Reqs :
        /\ zreq[r].pc = "done" /\ zreq[r].res.status = 404
        /\ zreq[r].nomCalls = 1 /\ zreq[r].uspsCalls = 1
        /\ zreq[r].usps = "throws"

\* The regional table has the ZIP of request q.
InRegionalTable(q) ==
    nycZipFile.exists /\ \E i \in 1..Len(nycZipFile.rows) : nycZipFile.rows[i].ZipCode = q.zip

\* The borough of a ZIP of the regional table.
BoroughOf(zip) ==
    LET i == CHOOSE i \in 1..Len(nycZipFile.rows) :
                 /\ nycZipFile.rows[i].ZipCode = zip
                 /\ \A j \in (i + 1)..Len(nycZipFile.rows) : nycZipFile.rows[j].ZipCode # zip
    IN  nycZipFile.rows[i].Borough

\* The fixed centre of a borough, Manhattan's for an unknown name.
CentreOf(borough) ==
    IF \E e \in boroughCoords : e[1] = ToUpperCase(borough)
    THEN (CHOOSE e \in boroughCoords : e[1] = ToUpperCase(borough))[2]
    ELSE Coord(407831, -739712)

\* C8: a request whose ZIP missed the index and is in the regional table
\* ends (once the table is loaded) with the centre of the ZIP's borough,
\* calls no external service and does not write the index, so the ZIP is
\* still not in the index afterwards.
C8_RegionalTableIsLocal ==
    [][\A r \in Reqs :
           ( /\ zreq[r].pc = "awaitZips"
             /\ zreq'[r].pc # "awaitZips"
             /\ zreq'[r].res.status # 500
             /\ InRegionalTable(zreq[r]) ) =>
               /\ zreq'[r].pc = "done"
               /\ zreq'[r].res = Response(200, <<CentreOf(BoroughOf(zreq[r].zip))>>)
               /\ zreq'[r].nomCalls = 0 /\ zreq'[r].uspsCalls = 0
               /\ ~zreq'[r].wrote
               /\ zipCentroids' = zipCentroids
               /\ zreq[r].zip \notin DOMAIN zipCentroids']_vars

\* C8's case: two requests for a ZIP of the Bronx, the second after the
\* table was cached, both answered by tier 2.
C8_Witness ==
    \E r1, r2 \in Reqs :
        /\ r1 # r2
        /\ zreq[r1].pc = "done" /\ zreq[r1].load = "reading"
        /\ zreq[r2].pc = "done" /\ zreq[r2].load = "cached"
        /\ zreq[r1].zip = zreq[r2].zip
        /\ zreq[r1].res = Response(200, <<Coord(408448, -738648)>>)
        /\ zreq[r2].res = zreq[r1].res
        /\ zreq[r2].nomCalls = 0 /\ zreq[r2].uspsCalls = 0
        /\ zreq[r2].zip \notin DOMAIN zipCentroids

\* C9: within a request, tier 3 is called at most once and only after
\* tiers 1 and 2 missed; tier 4 is called at most once and only when tier 3
\* settles without a coordinate; and when tier 3 settles the request
\* either succeeds with a coordinate or goes on to tier 4.
C9_TiersInOrderNoRetry ==
    [][\A r \in Reqs :
           /\ zreq'[r].nomCalls <= 1 /\ zreq'[r].uspsCalls <= 1
           /\ zreq'[r].nomCalls > zreq[r].nomCalls =>
                  /\ zreq[r].pc = "awaitZips"
                  /\ ~InRegionalTable(zreq[r])
           /\ zreq'[r].uspsCalls > zreq[r].uspsCalls =>
                  /\ zreq[r].pc = "awaitNominatim"
                  /\ zreq[r].nomCalls = 1
                  /\ zreq'[r].res = NoResponse
                  /\ ~zreq'[r].wrote
           /\ (zreq[r].pc = "awaitNominatim" /\ zreq'[r] # zreq[r]) =>
                  \/ /\ zreq'[r].pc = "done"
                     /\ zreq'[r].res.status = 200 /\ zreq'[r].res.body # NoBody
                     /\ zreq'[r].uspsCalls = 0
                  \/ /\ zreq'[r].pc = "awaitUsps"
                     /\ zreq'[r].uspsCalls = 1]_vars

\* C9's case: tier 3 settled without a coordinate and tier 4 was called.
C9_Witness ==
    \E r \in Reqs :
        zreq[r].pc = "awaitUsps" /\ zreq[r].nomCalls = 1 /\ zreq[r].uspsCalls = 1

\* C10: every coordinate of the centroid index, and every coordinate a
\* request returns, has a finite latitude and a finite longitude.
C10_CentroidsAreFinite ==
    /\ \A z \in DOMAIN zipCentroids :
           IsFinite(zipCentroids[z].latitude) /\ IsFinite(zipCentroids[z].longitude)
    /\ \A r \in Reqs :
           zreq[r].res.status = 200 =>
               /\ IsFinite(zreq[r].res.body[1].latitude)
               /\ IsFinite(zreq[r].res.body[1].longitude)

============================================================================
